---- MODULE Spec2Model ----
(***************************************************************************)
(* Model of the menu planner of main.go: generateMenuHandler,              *)
(* generateMenuSuggestions (the week loop) and generateDailyCombos (the    *)
(* per-day rejection sampler), together with the pure helpers              *)
(* categorizeMenu, calculateComboMetrics, isValidCombo, generateReasoning. *)
(*                                                                         *)
(* Popularity scores are float64 in the source.  They are modelled as      *)
(* exact integers counted in hundredths (8.0 is 800), so the tolerance     *)
(* 0.15 is 15.  Every variable is indexed by the run (one request) that    *)
(* owns it: all of them are locals of one call in the source.              *)
(***************************************************************************)
EXTENDS Integers, Sequences, FiniteSets, TLC

VARIABLES
    req,                          \* the call made to each run (input)
    pc,                           \* position of each run in the code
    response,                     \* what generateMenuHandler wrote to w
    categorizedMenu,              \* main.go:228
    numDays, numCombosPerDay,     \* main.go:226
    minCalories, maxCalories,     \* main.go:226
    fullMenuPlan,                 \* main.go:229
    day1OverallUsedItems,         \* main.go:233
    allGeneratedComboSignatures,  \* main.go:235
    globalComboCounter,           \* main.go:236
    dayIndex,                     \* main.go:240
    usedItemsForDay1,             \* main.go:243 (the pointer handed to the day)
    dailyCombos,                  \* main.go:133
    currentDayUsedItems,          \* main.go:134
    i,                            \* main.go:147
    attempts                      \* main.go:148

vars == <<req, pc, response, categorizedMenu, numDays, numCombosPerDay,
          minCalories, maxCalories, fullMenuPlan, day1OverallUsedItems,
          allGeneratedComboSignatures, globalComboCounter, dayIndex,
          usedItemsForDay1, dailyCombos, currentDayUsedItems, i, attempts>>

Runs == {1, 2}

-----------------------------------------------------------------------------
(* Bounds of the explored inputs *)

MaxDays == 8
MaxSlots == 2
MaxComboNumber == 30
OverlapDays == 2
PairDays == 2
ConcurrentDays == 4

-----------------------------------------------------------------------------
(* Data *)

MenuItem(name, category, calories, taste, popularity) ==
    [ItemName |-> name, Category |-> category, Calories |-> calories,
     TasteProfile |-> taste, PopularityScore |-> popularity]

Burger == MenuItem("Burger", "main", 500, "savory", 800)
Wrap   == MenuItem("Wrap", "main", 450, "spicy", 500)
Fries  == MenuItem("Fries", "side", 150, "savory", 790)
Salad  == MenuItem("Salad", "side", 100, "fresh", 505)
Water  == MenuItem("Water", "drink", 0, "fresh", 785)
Soda   == MenuItem("Soda", "drink", 100, "sweet", 784)
Juice  == MenuItem("Juice", "drink", 150, "sweet", 795)
Shake  == MenuItem("Shake", "drink", 151, "sweet", 795)
Lassi  == MenuItem("Lassi", "drink", 100, "sweet", 510)
Gravy  == MenuItem("Gravy", "side", 150, "savory", 800)
Stock  == MenuItem("Stock", "drink", 0, "savory", 800)
Cake   == MenuItem("Cake", "dessert", 300, "sweet", 800)

\* Every item name above, in the byte order sort.Strings uses.
NameOrder == <<"Burger", "Cake", "Fries", "Gravy", "Juice", "Lassi", "Salad",
               "Shake", "Soda", "Stock", "Water", "Wrap">>

dayNames == <<"Monday", "Tuesday", "Wednesday", "Thursday", "Friday",
              "Saturday", "Sunday">>

maxAttemptsPerCombo == 5000

popularityTolerance == 15

-----------------------------------------------------------------------------
(* Pure helpers *)

Set(f, R, new(_)) == [r \in Runs |-> IF r \in R THEN new(r) ELSE f[r]]

Max(S) == CHOOSE x \in S : \A y \in S : y <= x

Min(S) == CHOOSE x \in S : \A y \in S : x <= y

\* Mutant: desserts are filed with the drinks.
categorizeMenuDessertAsDrink(items) ==
    LET Filed(item) == IF item.Category = "dessert" THEN "drink" ELSE item.Category
    IN  [c \in {Filed(items[k]) : k \in 1..Len(items)} |->
            SelectSeq(items, LAMBDA item : Filed(item) = c)]

\* categorizeMenu: the items of each category that occurs, in catalog order.
categorizeMenu(items) ==
    [c \in {items[k].Category : k \in 1..Len(items)} |->
        SelectSeq(items, LAMBDA item : item.Category = c)]

\* categorizedMenu["main"]: a missing key reads as the nil (empty) slice.
Lookup(categorized, category) ==
    IF category \in DOMAIN categorized THEN categorized[category] ELSE <<>>

\* calculateComboMetrics: total calories, and the sum of the three scores
\* (the average is that sum divided by 3.0, kept exact as a numerator).
totalCaloriesOf(main, side, drink) ==
    main.Calories + side.Calories + drink.Calories

popularitySumOf(main, side, drink) ==
    main.PopularityScore + side.PopularityScore + drink.PopularityScore

\* math.Round(avgPopularity*100)/100 and the %.2f verb: the nearest hundredth
\* of sum/3 (a third is never a tie), for the non-negative scores used here.
RoundAvg(sum) == (2 * sum + 3) \div 6

popularitySpread(main, side, drink) ==
    LET popularityScores ==
            {main.PopularityScore, side.PopularityScore, drink.PopularityScore}
    IN  Max(popularityScores) - Min(popularityScores)

\* Mutant: the upper calorie bound is not checked.
isValidComboNoUpper(main, side, drink, minCal, maxCal, tolerance) ==
    /\ totalCaloriesOf(main, side, drink) >= minCal
    /\ ~(popularitySpread(main, side, drink) > tolerance)

\* Mutant: a spread equal to the tolerance is rejected too (>= for >).
isValidComboRejectsEqual(main, side, drink, minCal, maxCal, tolerance) ==
    /\ totalCaloriesOf(main, side, drink) >= minCal
    /\ totalCaloriesOf(main, side, drink) <= maxCal
    /\ ~(popularitySpread(main, side, drink) >= tolerance)

\* lines 78-92
isValidCombo(main, side, drink, minCal, maxCal, tolerance) ==
    /\ totalCaloriesOf(main, side, drink) >= minCal
    /\ totalCaloriesOf(main, side, drink) <= maxCal
    /\ ~(popularitySpread(main, side, drink) > tolerance)

\* sort.Strings on the three names, then strings.Join(itemNames, "_").
RankOf == [name \in {NameOrder[k] : k \in 1..Len(NameOrder)} |->
              CHOOSE k \in 1..Len(NameOrder) : NameOrder[k] = name]

SortStrings(names) ==
    LET Before(a, b) == \/ RankOf[names[a]] < RankOf[names[b]]
                        \/ RankOf[names[a]] = RankOf[names[b]] /\ a < b
        Place(a) == 1 + Cardinality({b \in 1..Len(names) : Before(b, a)})
    IN  [k \in 1..Len(names) |-> names[CHOOSE a \in 1..Len(names) : Place(a) = k]]

JoinUnderscore(itemNames) ==
    itemNames[1] \o "_" \o itemNames[2] \o "_" \o itemNames[3]

\* The signature of every triple of names, computed once.
SignatureTable ==
    [a \in {NameOrder[k] : k \in 1..Len(NameOrder)} |->
        [b \in {NameOrder[k] : k \in 1..Len(NameOrder)} |->
            [c \in {NameOrder[k] : k \in 1..Len(NameOrder)} |->
                JoinUnderscore(SortStrings(<<a, b, c>>))]]]

comboSignatureOf(main, side, drink) ==
    SignatureTable[main.ItemName][side.ItemName][drink.ItemName]

\* fmt.Sprintf("combo_%d", n)
ComboIDOf(n) == "combo_" \o ToString(n)

\* fmt's %.2f of a value given in hundredths
Format2(h) ==
    ToString(h \div 100) \o "." \o ToString((h % 100) \div 10) \o ToString(h % 10)

tasteProfilesOf(main, side, drink) ==
    {main.TasteProfile, side.TasteProfile, drink.TasteProfile}

\* Mutant: the loop runs whatever the size of the map.
RangeLastAnySize(tasteProfiles) ==
    {[ran |-> TRUE, key |-> k] : k \in tasteProfiles}

\* lines 102-103: the range loop over the map runs only when the map has one
\* key.  Go leaves the order of a map range open, so any key may be the one
\* visited last; ran is FALSE for a loop that did not run.
RangeLast(tasteProfiles) ==
    IF Cardinality(tasteProfiles) = 1
    THEN {[ran |-> TRUE, key |-> k] : k \in tasteProfiles}
    ELSE {[ran |-> FALSE, key |-> ""]}

\* Mutant: sweet is looked for before spicy.
tasteDescSweetFirst(main, side, drink, last) ==
    LET tasteProfiles == tasteProfilesOf(main, side, drink)
    IN  IF last.ran THEN "a " \o last.key \o " profile"
        ELSE IF "sweet" \in tasteProfiles THEN "a sweet and mixed taste profile"
        ELSE IF "spicy" \in tasteProfiles THEN "a spicy and mixed taste profile"
        ELSE IF "savory" \in tasteProfiles THEN "a savory and mixed taste profile"
        ELSE IF "fresh" \in tasteProfiles THEN "a fresh and mixed taste profile"
        ELSE "a mixed taste profile"

\* lines 101-116: the taste description, `last` being the key the loop left
\* in tasteDesc.
tasteDesc(main, side, drink, last) ==
    LET tasteProfiles == tasteProfilesOf(main, side, drink)
    IN  IF last.ran THEN "a " \o last.key \o " profile"
        ELSE IF "spicy" \in tasteProfiles THEN "a spicy and mixed taste profile"
        ELSE IF "sweet" \in tasteProfiles THEN "a sweet and mixed taste profile"
        ELSE IF "savory" \in tasteProfiles THEN "a savory and mixed taste profile"
        ELSE IF "fresh" \in tasteProfiles THEN "a fresh and mixed taste profile"
        ELSE "a mixed taste profile"

generateReasoning(main, side, drink, totalCalories, popularitySum, last) ==
    "This combo features " \o tasteDesc(main, side, drink, last)
        \o ", consists of popular choices (average popularity: "
        \o Format2(RoundAvg(popularitySum))
        \o "), and meets the calorie target (" \o ToString(totalCalories)
        \o " kcal)."

-----------------------------------------------------------------------------
(* The calls explored *)

Request(entry, load, items, days, slots, minCal, maxCal) ==
    [entry |-> entry, load |-> load, masterMenu |-> items, numDays |-> days,
     numCombosPerDay |-> slots, minCalories |-> minCal, maxCalories |-> maxCal]

\* GET /generate-menu with ./data/master_menu.json in the given condition
HandlerRequest(load, items) == Request("handler", load, items, 0, 0, 0, 0)

DirectRequest(items, days, slots, minCal, maxCal) ==
    Request("direct", "ok", items, days, slots, minCal, maxCal)

OneTriple   == <<Burger, Fries, Water>>
MonoTaste   == <<Burger, Gravy, Stock>>
Overlapping == <<Burger, Fries, Water, Juice, Soda>>
TwoTriples  == <<Burger, Wrap, Fries, Salad, Water, Lassi>>
Boundary    == <<Burger, Fries, Water, Soda, Juice, Shake>>
NoValid     == <<Burger, Fries, Soda>>
WithDessert == <<Burger, Fries, Water, Cake>>

\* The taste profiles tried: the four the code names, one it does not, and
\* the empty string of an item without the field.
Vocabulary == {"spicy", "sweet", "savory", "fresh", "umami", ""}

\* One valid triple whose main, side and drink carry the given profiles
Tasting(mainTaste, sideTaste, drinkTaste) ==
    <<MenuItem("Burger", "main", 500, mainTaste, 800),
      MenuItem("Fries", "side", 150, sideTaste, 790),
      MenuItem("Water", "drink", 0, drinkTaste, 785)>>

RoleMissing == {<<Fries, Water>>, <<Burger, Water>>, <<Burger, Fries, Cake>>}

Requests ==
    {HandlerRequest("unreadable", <<>>), HandlerRequest("malformed", <<>>),
     HandlerRequest("ok", <<>>), HandlerRequest("ok", OneTriple)}
    \cup {DirectRequest(items, days, slots, 550, 800) :
            items \in RoleMissing, days \in 0..MaxDays, slots \in 0..MaxSlots}
    \cup {DirectRequest(OneTriple, 2, 0, 550, 800),
          DirectRequest(MonoTaste, 1, 1, 550, 800),
          DirectRequest(NoValid, 2, MaxSlots, 550, 800)}
    \cup {DirectRequest(Overlapping, OverlapDays, 2, 550, 800)}
    \cup {DirectRequest(TwoTriples, PairDays, 2, 550, 800)}
    \cup {DirectRequest(Boundary, 1, 1, band[1], band[2]) :
            band \in {<<550, 800>>, <<650, 650>>, <<651, 799>>}}
    \cup {DirectRequest(WithDessert, 1, 1, 550, 1000),
          DirectRequest(OneTriple, 7, 1, 550, 800)}
    \cup {DirectRequest(Tasting(t[1], t[2], t[3]), 1, 1, 550, 800) :
            t \in Vocabulary \X Vocabulary \X Vocabulary}

-----------------------------------------------------------------------------
(* State *)

NoResponse == [status |-> 0, error |-> "", plan |-> <<>>]

\* Before the call: no local of generateMenuHandler or generateMenuSuggestions
\* exists yet (each is shown with the zero value of its type).
NotCalled ==
    /\ pc = [r \in Runs |-> "start"]
    /\ response = [r \in Runs |-> NoResponse]
    /\ categorizedMenu = [r \in Runs |-> <<>>]
    /\ numDays = [r \in Runs |-> 0]
    /\ numCombosPerDay = [r \in Runs |-> 0]
    /\ minCalories = [r \in Runs |-> 0]
    /\ maxCalories = [r \in Runs |-> 0]
    /\ fullMenuPlan = [r \in Runs |-> <<>>]
    /\ day1OverallUsedItems = [r \in Runs |-> {}]
    /\ allGeneratedComboSignatures = [r \in Runs |-> <<>>]
    /\ globalComboCounter = [r \in Runs |-> 0]
    /\ dayIndex = [r \in Runs |-> 0]
    /\ usedItemsForDay1 = [r \in Runs |-> "nil"]
    /\ dailyCombos = [r \in Runs |-> <<>>]
    /\ currentDayUsedItems = [r \in Runs |-> {}]
    /\ i = [r \in Runs |-> 0]
    /\ attempts = [r \in Runs |-> 0]

Init ==
    /\ \E q \in Requests : req = [r \in Runs |-> q]
    /\ NotCalled

\* Two requests served at the same time: the first is one of Foreground, the
\* second a one-day, one-slot call whose only triple is valid.
Foreground ==
    {HandlerRequest("malformed", <<>>), HandlerRequest("ok", <<Fries, Water>>),
     DirectRequest(<<Fries, Water>>, MaxDays, 1, 550, 800),
     DirectRequest(OneTriple, ConcurrentDays, 1, 550, 800),
     DirectRequest(TwoTriples, 1, 2, 550, 800)}

Background ==
    {DirectRequest(OneTriple, 1, 1, 550, 800),
     DirectRequest(MonoTaste, 1, 1, 550, 800)}

InitConcurrent ==
    /\ \E q1 \in Foreground, q2 \in Background :
          req = [r \in Runs |-> IF r = 1 THEN q1 ELSE q2]
    /\ NotCalled

dayVars == <<usedItemsForDay1, dailyCombos, currentDayUsedItems, i, attempts>>

weekVars == <<fullMenuPlan, day1OverallUsedItems, allGeneratedComboSignatures,
              globalComboCounter, dayIndex>>

argVars == <<categorizedMenu, numDays, numCombosPerDay, minCalories, maxCalories>>

-----------------------------------------------------------------------------
(* generateMenuSuggestions, lines 228-236: the locals of a fresh call *)

\* Mutant: the identifier counter is shared by the runs in flight, so a call
\* carries on from the largest count reached.
InitialCounterShared(r) == Max({globalComboCounter[q] : q \in Runs})

\* line 236: globalComboCounter := 0
InitialCounter(r) == 0

EnterSuggestions(R, args) ==
    /\ categorizedMenu' =
           Set(categorizedMenu, R, LAMBDA r : categorizeMenu(args[r].masterMenu))
    /\ numDays' = Set(numDays, R, LAMBDA r : args[r].numDays)
    /\ numCombosPerDay' = Set(numCombosPerDay, R, LAMBDA r : args[r].numCombosPerDay)
    /\ minCalories' = Set(minCalories, R, LAMBDA r : args[r].minCalories)
    /\ maxCalories' = Set(maxCalories, R, LAMBDA r : args[r].maxCalories)
    /\ fullMenuPlan' = Set(fullMenuPlan, R, LAMBDA r : <<>>)
    /\ day1OverallUsedItems' = Set(day1OverallUsedItems, R, LAMBDA r : {})
    /\ allGeneratedComboSignatures' =
           Set(allGeneratedComboSignatures, R, LAMBDA r : <<>>)
    /\ globalComboCounter' = Set(globalComboCounter, R, InitialCounter)
    /\ dayIndex' = Set(dayIndex, R, LAMBDA r : 0)

\* A direct call generateMenuSuggestions(masterMenu, numDays, ...)
generateMenuSuggestions(R) ==
    /\ \A r \in R : pc[r] = "start" /\ req[r].entry = "direct"
    /\ EnterSuggestions(R, [r \in R |-> req[r]])
    /\ pc' = Set(pc, R, LAMBDA r : "dayloop")
    /\ UNCHANGED <<req, response, dayVars>>

\* Mutant: the check for an empty catalog (line 285) is missing.
LoadFailsOnlyOnError(r) == req[r].load # "ok"

\* generateMenuHandler, lines 278-288: the catalog cannot be had
LoadFails(r) == req[r].load # "ok" \/ Len(req[r].masterMenu) = 0


generateMenuHandlerError(R) ==
    /\ \A r \in R : pc[r] = "start" /\ req[r].entry = "handler" /\ LoadFails(r)
    /\ response' = Set(response, R, LAMBDA r :
           [status |-> 500,
            error |-> IF req[r].load # "ok" THEN "Unable to load menu file"
                      ELSE "Master menu is empty or could not be loaded.",
            plan |-> <<>>])
    /\ pc' = Set(pc, R, LAMBDA r : "responded")
    /\ UNCHANGED <<req, argVars, weekVars, dayVars>>

\* generateMenuHandler, line 291: generateMenuSuggestions(items, 7, 3, 550, 800)
generateMenuHandlerCall(R) ==
    /\ \A r \in R : pc[r] = "start" /\ req[r].entry = "handler" /\ ~LoadFails(r)
    /\ EnterSuggestions(R, [r \in R |->
           [masterMenu |-> req[r].masterMenu, numDays |-> 7,
            numCombosPerDay |-> 3, minCalories |-> 550, maxCalories |-> 800]])
    /\ pc' = Set(pc, R, LAMBDA r : "dayloop")
    /\ UNCHANGED <<req, response, dayVars>>

-----------------------------------------------------------------------------
(* generateMenuSuggestions, the loop over the days (lines 240-271) *)

\* line 241: dayNames[dayIndex] is evaluated first; an index past the seven
\* names is a run-time panic (index out of range).
DayPanics(R) ==
    /\ \A r \in R : /\ pc[r] = "dayloop"
                    /\ dayIndex[r] < numDays[r]
                    /\ dayIndex[r] >= Len(dayNames)
    /\ pc' = Set(pc, R, LAMBDA r : "panic")
    /\ UNCHANGED <<req, response, argVars, weekVars, dayVars>>

mains(r) == Lookup(categorizedMenu[r], "main")

sides(r) == Lookup(categorizedMenu[r], "side")

drinks(r) == Lookup(categorizedMenu[r], "drink")

\* Mutant: the drinks are left out of the check.
RoleEmptyForgetsDrinks(r) == Len(mains(r)) = 0 \/ Len(sides(r)) = 0

\* line 140
RoleEmpty(r) == Len(mains(r)) = 0 \/ Len(sides(r)) = 0 \/ Len(drinks(r)) = 0

\* Mutant: the day-1 tracker is handed over on every day.
TrackerForEveryDay(d) == "day1OverallUsedItems"

\* lines 243-248: the day-1 tracker is handed over on day index 0 only
TrackerFor(d) == IF d = 0 THEN "day1OverallUsedItems" ELSE "nil"

\* lines 241-258 and 133-148: the call of generateDailyCombos up to its first
\* draw, or up to its return when a role is empty or no slot is wanted.
BeginDay(R) ==
    /\ \A r \in R : /\ pc[r] = "dayloop"
                    /\ dayIndex[r] < numDays[r]
                    /\ dayIndex[r] < Len(dayNames)
    /\ usedItemsForDay1' = Set(usedItemsForDay1, R, LAMBDA r : TrackerFor(dayIndex[r]))
    /\ dailyCombos' = Set(dailyCombos, R, LAMBDA r : <<>>)
    /\ currentDayUsedItems' = Set(currentDayUsedItems, R, LAMBDA r : {})
    /\ i' = Set(i, R, LAMBDA r : 0)
    /\ attempts' = Set(attempts, R, LAMBDA r : 0)
    /\ pc' = Set(pc, R, LAMBDA r :
           IF RoleEmpty(r) \/ ~(0 < numCombosPerDay[r]) THEN "return" ELSE "attempt")
    /\ UNCHANGED <<req, response, argVars, weekVars>>

\* Mutant: the day-1 set is consulted on every day.
isUniqueForDay1OnEveryDay(r, main, side, drink) ==
    ~(\/ main.ItemName \in day1OverallUsedItems[r]
      \/ side.ItemName \in day1OverallUsedItems[r]
      \/ drink.ItemName \in day1OverallUsedItems[r])

\* lines 157-162
isUniqueForDay1(r, main, side, drink) ==
    usedItemsForDay1[r] = "nil"
    \/ ~(\/ main.ItemName \in day1OverallUsedItems[r]
         \/ side.ItemName \in day1OverallUsedItems[r]
         \/ drink.ItemName \in day1OverallUsedItems[r])

\* Mutant: the current-day check is left out.
isUniqueForCurrentDayItemsSkipped(r, main, side, drink) == TRUE

\* lines 164-167
isUniqueForCurrentDayItems(r, main, side, drink) ==
    ~(\/ main.ItemName \in currentDayUsedItems[r]
      \/ side.ItemName \in currentDayUsedItems[r]
      \/ drink.ItemName \in currentDayUsedItems[r])

\* Mutant: a signature is blocked for one day more (<= for <).
isUniqueWithin3DaysInclusive(r, comboSignature) ==
    comboSignature \in DOMAIN allGeneratedComboSignatures[r]
        => ~(dayIndex[r] - allGeneratedComboSignatures[r][comboSignature] <= 3)

\* Mutant: the window is two days instead of three.
isUniqueWithin2Days(r, comboSignature) ==
    comboSignature \in DOMAIN allGeneratedComboSignatures[r]
        => ~(dayIndex[r] - allGeneratedComboSignatures[r][comboSignature] < 2)

\* lines 174-179
isUniqueWithin3Days(r, comboSignature) ==
    comboSignature \in DOMAIN allGeneratedComboSignatures[r]
        => ~(dayIndex[r] - allGeneratedComboSignatures[r][comboSignature] < 3)

\* lines 181-182
Acceptable(r, main, side, drink) ==
    /\ isUniqueForDay1(r, main, side, drink)
    /\ isUniqueForCurrentDayItems(r, main, side, drink)
    /\ isUniqueWithin3Days(r, comboSignatureOf(main, side, drink))
    /\ isValidCombo(main, side, drink, minCalories[r], maxCalories[r],
                    popularityTolerance)

\* Mutant: a signature already in the map keeps the day it was first used.
RecordSignatureOnce(r, comboSignature) ==
    allGeneratedComboSignatures[r] @@ (comboSignature :> dayIndex[r])

\* line 208: allGeneratedComboSignatures[comboSignature] = currentDayIndex
RecordSignature(r, comboSignature) ==
    (comboSignature :> dayIndex[r]) @@ allGeneratedComboSignatures[r]

\* Mutant: the identifier number restarts with every day.
NextComboNumberPerDay(r) == Len(dailyCombos[r]) + 1

\* line 186: *globalComboCounter++
NextComboNumber(r) == globalComboCounter[r] + 1

\* lines 184-195
NewCombo(r, main, side, drink, last) ==
    [ComboID |-> ComboIDOf(NextComboNumber(r)),
     Main |-> main.ItemName,
     Side |-> side.ItemName,
     Drink |-> drink.ItemName,
     CalorieCount |-> totalCaloriesOf(main, side, drink),
     PopularityAvg |-> RoundAvg(popularitySumOf(main, side, drink)),
     Reasoning |-> generateReasoning(main, side, drink,
                                     totalCaloriesOf(main, side, drink),
                                     popularitySumOf(main, side, drink), last)]

CanDraw(r, mi, si, di) ==
    /\ pc[r] = "attempt"
    /\ attempts[r] < maxAttemptsPerCombo
    /\ mi \in 1..Len(mains(r))
    /\ si \in 1..Len(sides(r))
    /\ di \in 1..Len(drinks(r))

\* rand.Intn(len(pool)): the indices the runs of R can draw
Indices(R, category) ==
    UNION {1..Len(Lookup(categorizedMenu[r], category)) : r \in R}

\* The triples of indices lines 153-155 can draw
Draws(R) == Indices(R, "main") \X Indices(R, "side") \X Indices(R, "drink")

Rejects(r, draw) ==
    /\ CanDraw(r, draw[1], draw[2], draw[3])
    /\ ~Acceptable(r, mains(r)[draw[1]], sides(r)[draw[2]], drinks(r)[draw[3]])

\* Mutant: a rejected draw is not counted (attempts++ of line 151 is missing).
AttemptRejectedUncounted(R) ==
    /\ \A r \in R : pc[r] = "attempt" /\ attempts[r] < maxAttemptsPerCombo
    /\ ~(\A draw \in Draws(R) : \E r \in R : ~Rejects(r, draw))
    /\ UNCHANGED vars

\* Mutant: a rejected triple still marks its main as used on the current day.
AttemptRejectedMarksItems(R) ==
    /\ \A r \in R : pc[r] = "attempt" /\ attempts[r] < maxAttemptsPerCombo
    /\ ~(\A draw \in Draws(R) : \E r \in R : ~Rejects(r, draw))
    /\ attempts' = Set(attempts, R, LAMBDA r : attempts[r] + 1)
    /\ currentDayUsedItems' = Set(currentDayUsedItems, R, LAMBDA r :
           currentDayUsedItems[r] \cup {mains(r)[1].ItemName})
    /\ UNCHANGED <<req, pc, response, argVars, weekVars,
                   usedItemsForDay1, dailyCombos, i>>

\* lines 150-182 when the drawn triple fails a check (some draw does unless
\* every draw would be accepted): only attempts moves
AttemptRejected(R) ==
    /\ \A r \in R : pc[r] = "attempt" /\ attempts[r] < maxAttemptsPerCombo
    /\ ~(\A draw \in Draws(R) : \E r \in R : ~Rejects(r, draw))
    /\ attempts' = Set(attempts, R, LAMBDA r : attempts[r] + 1)
    /\ UNCHANGED <<req, pc, response, argVars, weekVars,
                   usedItemsForDay1, dailyCombos, currentDayUsedItems, i>>

\* line 103: for each run, the profile its range loop visits last
LastKeys(R, mi, si, di) ==
    LET keys(r) == RangeLast(tasteProfilesOf(mains(r)[mi], sides(r)[si],
                                             drinks(r)[di]))
    IN  {last \in [R -> UNION {keys(r) : r \in R}] :
            \A r \in R : last[r] \in keys(r)}

\* lines 150-212 when the drawn triple is accepted, and the step to the next
\* slot (line 147, where attempts starts again at 0) or out of the loop
\* (line 220, where attempts goes out of scope and is left at 0)
AttemptAccepted(R, mi, si, di) ==
  /\ \A r \in R : /\ CanDraw(r, mi, si, di)
                  /\ Acceptable(r, mains(r)[mi], sides(r)[si], drinks(r)[di])
  /\ \E last \in LastKeys(R, mi, si, di) :
    /\ globalComboCounter' = Set(globalComboCounter, R, NextComboNumber)
    /\ dailyCombos' = Set(dailyCombos, R, LAMBDA r :
           Append(dailyCombos[r],
                  NewCombo(r, mains(r)[mi], sides(r)[si], drinks(r)[di], last[r])))
    /\ currentDayUsedItems' = Set(currentDayUsedItems, R, LAMBDA r :
           currentDayUsedItems[r] \cup
               {mains(r)[mi].ItemName, sides(r)[si].ItemName, drinks(r)[di].ItemName})
    /\ day1OverallUsedItems' = Set(day1OverallUsedItems, R, LAMBDA r :
           IF usedItemsForDay1[r] # "nil"
           THEN day1OverallUsedItems[r] \cup
               {mains(r)[mi].ItemName, sides(r)[si].ItemName, drinks(r)[di].ItemName}
           ELSE day1OverallUsedItems[r])
    /\ allGeneratedComboSignatures' = Set(allGeneratedComboSignatures, R, LAMBDA r :
           RecordSignature(r, comboSignatureOf(mains(r)[mi], sides(r)[si],
                                               drinks(r)[di])))
    /\ i' = Set(i, R, LAMBDA r : i[r] + 1)
    /\ attempts' = Set(attempts, R, LAMBDA r : 0)
    /\ pc' = Set(pc, R, LAMBDA r :
           IF i[r] + 1 < numCombosPerDay[r] THEN "attempt" ELSE "return")
    /\ UNCHANGED <<req, response, argVars, fullMenuPlan, dayIndex, usedItemsForDay1>>

\* Mutant: an exhausted slot is skipped and the next slot is tried (continue).
SlotExhaustedContinue(R) ==
    /\ \A r \in R : pc[r] = "attempt" /\ ~(attempts[r] < maxAttemptsPerCombo)
    /\ i' = Set(i, R, LAMBDA r : i[r] + 1)
    /\ attempts' = Set(attempts, R, LAMBDA r : 0)
    /\ pc' = Set(pc, R, LAMBDA r :
           IF i[r] + 1 < numCombosPerDay[r] THEN "attempt" ELSE "return")
    /\ UNCHANGED <<req, response, argVars, weekVars,
                   usedItemsForDay1, dailyCombos, currentDayUsedItems>>

\* lines 150 and 214-218: the attempts of a slot are used up; break
SlotExhausted(R) ==
    /\ \A r \in R : pc[r] = "attempt" /\ ~(attempts[r] < maxAttemptsPerCombo)
    /\ pc' = Set(pc, R, LAMBDA r : "return")
    /\ UNCHANGED <<req, response, argVars, weekVars, dayVars>>

\* lines 220 and 260-270: the day's combos are appended under the day's name
EndDay(R) ==
    /\ \A r \in R : pc[r] = "return"
    /\ fullMenuPlan' = Set(fullMenuPlan, R, LAMBDA r :
           Append(fullMenuPlan[r],
                  [Day |-> dayNames[dayIndex[r] + 1], Combos |-> dailyCombos[r]]))
    /\ dayIndex' = Set(dayIndex, R, LAMBDA r : dayIndex[r] + 1)
    /\ pc' = Set(pc, R, LAMBDA r : "dayloop")
    /\ UNCHANGED <<req, response, argVars, day1OverallUsedItems,
                   allGeneratedComboSignatures, globalComboCounter, dayVars>>

\* line 271, and lines 293-294 when the caller is the handler
ReturnPlan(R) ==
    /\ \A r \in R : pc[r] = "dayloop" /\ ~(dayIndex[r] < numDays[r])
    /\ pc' = Set(pc, R, LAMBDA r : "done")
    /\ response' = Set(response, R, LAMBDA r :
           IF req[r].entry = "handler"
           THEN [status |-> 200, error |-> "", plan |-> fullMenuPlan[r]]
           ELSE response[r])
    /\ UNCHANGED <<req, argVars, weekVars, dayVars>>

-----------------------------------------------------------------------------
(* Specifications *)

Step(R) ==
    \/ generateMenuSuggestions(R)
    \/ generateMenuHandlerError(R)
    \/ generateMenuHandlerCall(R)
    \/ DayPanics(R)
    \/ BeginDay(R)
    \/ AttemptRejected(R)
    \/ \E mi \in Indices(R, "main"), si \in Indices(R, "side"),
          di \in Indices(R, "drink") :
          AttemptAccepted(R, mi, si, di)
    \/ SlotExhausted(R)
    \/ EndDay(R)
    \/ ReturnPlan(R)

\* One request, served from start to finish.
Next == Step({1})

Spec == Init /\ [][Next]_vars

\* The same run under the scheduling of a sequential program: a call that can
\* take its next step takes it.
SpecFair == Init /\ [][Next]_vars /\ WF_vars(Next)

\* Two runs of the same call that are fed the same drawn indices, step by step.
NextLockstep == Step(Runs)

SpecLockstep == Init /\ [][NextLockstep]_vars

\* Two requests in flight, each in its own goroutine (net/http serves every
\* request in one): either run takes the next step.
NextConcurrent == \E r \in Runs : Step({r})

SpecConcurrent == InitConcurrent /\ [][NextConcurrent]_vars

-----------------------------------------------------------------------------
(* Reading a plan *)

InDay(r) == pc[r] \in {"attempt", "return"}

\* The days generated so far: the plan, and the day being generated if any.
DaysSoFar(r) ==
    IF InDay(r)
    THEN Append(fullMenuPlan[r], [Day |-> dayNames[dayIndex[r] + 1],
                                  Combos |-> dailyCombos[r]])
    ELSE fullMenuPlan[r]

\* <<d, k>>: the k-th combo of day index d - 1
AcceptedAt(r) ==
    UNION {{<<d, k>> : k \in 1..Len(DaysSoFar(r)[d].Combos)} :
              d \in 1..Len(DaysSoFar(r))}

ComboAt(r, e) == DaysSoFar(r)[e[1]].Combos[e[2]]

NamesOf(combo) == {combo.Main, combo.Side, combo.Drink}

\* The catalog item a combo names in a role
ItemNamed(r, category, name) ==
    CHOOSE item \in {req[r].masterMenu[k] : k \in 1..Len(req[r].masterMenu)} :
        item.Category = category /\ item.ItemName = name

SpreadOfCombo(r, combo) ==
    LET scores == {ItemNamed(r, "main", combo.Main).PopularityScore,
                   ItemNamed(r, "side", combo.Side).PopularityScore,
                   ItemNamed(r, "drink", combo.Drink).PopularityScore}
    IN  Max(scores) - Min(scores)

SignatureOfCombo(combo) == SignatureTable[combo.Main][combo.Side][combo.Drink]

Returned(r) == pc[r] = "done"

-----------------------------------------------------------------------------
(* C1: every accepted combo, in the plan or in the day being generated, has
   minCalories <= CalorieCount <= maxCalories, both bounds inclusive. *)
C1_CaloriesWithinBand ==
    \A r \in Runs : \A e \in AcceptedAt(r) :
        /\ minCalories[r] <= ComboAt(r, e).CalorieCount
        /\ ComboAt(r, e).CalorieCount <= maxCalories[r]

\* A returned plan holding a combo whose calories sit on both bounds at once.
C1_Witness ==
    \E r \in Runs :
        /\ Returned(r)
        /\ \E e \in AcceptedAt(r) :
              /\ ComboAt(r, e).CalorieCount = minCalories[r]
              /\ ComboAt(r, e).CalorieCount = maxCalories[r]

(* C2: the popularity spread of every accepted combo is at most the tolerance
   (0.15); and a draw whose spread equals the tolerance, whose calories are
   within the band and which passes the three uniqueness checks is accepted. *)
C2_SpreadWithinTolerance ==
    \A r \in Runs :
        /\ \A e \in AcceptedAt(r) :
              SpreadOfCombo(r, ComboAt(r, e)) <= popularityTolerance
        /\ pc[r] = "attempt" =>
              \A draw \in Draws({r}) :
                 LET main == mains(r)[draw[1]]
                     side == sides(r)[draw[2]]
                     drink == drinks(r)[draw[3]]
                     total == main.Calories + side.Calories + drink.Calories
                 IN  /\ popularitySpread(main, side, drink) = popularityTolerance
                     /\ minCalories[r] <= total /\ total <= maxCalories[r]
                     /\ isUniqueForDay1(r, main, side, drink)
                     /\ isUniqueForCurrentDayItems(r, main, side, drink)
                     /\ isUniqueWithin3Days(r, comboSignatureOf(main, side, drink))
                     => Acceptable(r, main, side, drink)

\* A returned plan holding a combo whose spread is exactly the tolerance.
C2_Witness ==
    \E r \in Runs :
        /\ Returned(r)
        /\ \E e \in AcceptedAt(r) :
              SpreadOfCombo(r, ComboAt(r, e)) = popularityTolerance

(* C3: within one day no two distinct accepted combos share an item name. *)
C3_DayItemsDisjoint ==
    \A r \in Runs : \A e1, e2 \in AcceptedAt(r) :
        (e1[1] = e2[1] /\ e1[2] # e2[2]) =>
            NamesOf(ComboAt(r, e1)) \cap NamesOf(ComboAt(r, e2)) = {}

\* A returned plan with two combos on a day after day index 0, following a
\* day index 0 that accepted nothing.
C3_Witness ==
    \E r \in Runs :
        /\ Returned(r)
        /\ Len(fullMenuPlan[r]) >= 2
        /\ Len(fullMenuPlan[r][1].Combos) = 0
        /\ Len(fullMenuPlan[r][2].Combos) = 2

(* C4: two distinct accepted combos with equal signatures lie at least three
   day indices apart. *)
C4_SignatureWindow ==
    \A r \in Runs : \A e1, e2 \in AcceptedAt(r) :
        (e1 # e2 /\ SignatureOfCombo(ComboAt(r, e1)) = SignatureOfCombo(ComboAt(r, e2)))
            => (e1[1] - e2[1] >= 3 \/ e2[1] - e1[1] >= 3)

\* A returned plan where a signature recurs exactly three days later, the two
\* days in between having produced no combo.
C4_Witness ==
    \E r \in Runs :
        /\ Returned(r)
        /\ \E e1, e2 \in AcceptedAt(r) :
              /\ e2[1] = e1[1] + 3
              /\ SignatureOfCombo(ComboAt(r, e1)) = SignatureOfCombo(ComboAt(r, e2))
              /\ Len(fullMenuPlan[r][e1[1] + 1].Combos) = 0
              /\ Len(fullMenuPlan[r][e1[1] + 2].Combos) = 0

\* The number n of an identifier combo_<n> (-1 when it is none in range)
ComboNumber(id) ==
    IF \E n \in 0..MaxComboNumber : ComboIDOf(n) = id
    THEN CHOOSE n \in 0..MaxComboNumber : ComboIDOf(n) = id
    ELSE -1

Before(e1, e2) == e1[1] < e2[1] \/ (e1[1] = e2[1] /\ e1[2] < e2[2])

(* C5: read in day order and, within a day, in list order, the numbers of the
   identifiers combo_<n> are strictly increasing (hence pairwise distinct). *)
C5_IdentifiersIncrease ==
    \A r \in Runs : \A e1, e2 \in AcceptedAt(r) :
        /\ ComboNumber(ComboAt(r, e1).ComboID) >= 1
        /\ Before(e1, e2) =>
              ComboNumber(ComboAt(r, e1).ComboID) < ComboNumber(ComboAt(r, e2).ComboID)

\* A returned plan with a combo on a day whose second slot failed, an empty
\* day after it, and a combo with a larger number on a later day.
C5_Witness ==
    \E r \in Runs :
        /\ Returned(r)
        /\ numCombosPerDay[r] >= 2
        /\ \E d1, d2, d3 \in 1..Len(fullMenuPlan[r]) :
              /\ d1 < d2 /\ d2 < d3
              /\ Len(fullMenuPlan[r][d1].Combos) = 1
              /\ Len(fullMenuPlan[r][d2].Combos) = 0
              /\ Len(fullMenuPlan[r][d3].Combos) >= 1
              /\ ComboNumber(fullMenuPlan[r][d1].Combos[1].ComboID)
                    < ComboNumber(fullMenuPlan[r][d3].Combos[1].ComboID)

\* The request names no item of some role
RoleMissingIn(items) ==
    \E role \in {"main", "side", "drink"} :
        \A k \in 1..Len(items) : items[k].Category # role

(* C6: when the catalog lacks a role, no candidate is ever drawn, every day
   generated has an empty combo list, the identifier counter, the day-0 set
   and the signature map stay as they were at the start, and every day up to
   the current one has its entry in the plan. *)
C6_EmptyRoleDay ==
    \A r \in Runs :
        (pc[r] # "start" /\ RoleMissingIn(req[r].masterMenu))
            => /\ pc[r] # "attempt"
               /\ attempts[r] = 0
               /\ dailyCombos[r] = <<>>
               /\ \A d \in 1..Len(fullMenuPlan[r]) : fullMenuPlan[r][d].Combos = <<>>
               /\ globalComboCounter[r] = 0
               /\ day1OverallUsedItems[r] = {}
               /\ DOMAIN allGeneratedComboSignatures[r] = {}
               /\ pc[r] \in {"dayloop", "done", "panic"} =>
                     Len(fullMenuPlan[r]) = dayIndex[r]
               /\ Returned(r) => Len(fullMenuPlan[r]) = numDays[r]

\* A plan returned for a catalog without drinks: several days, all empty,
\* although slots were wanted.
C6_Witness ==
    \E r \in Runs :
        /\ Returned(r)
        /\ RoleMissingIn(req[r].masterMenu)
        /\ Len(mains(r)) > 0 /\ Len(sides(r)) > 0 /\ Len(drinks(r)) = 0
        /\ numCombosPerDay[r] >= 1
        /\ Len(fullMenuPlan[r]) >= 3

PlanWellFormed(r) ==
    /\ Len(fullMenuPlan[r]) = numDays[r]
    /\ \A d \in 1..Len(fullMenuPlan[r]) :
          /\ d <= Len(dayNames) /\ fullMenuPlan[r][d].Day = dayNames[d]
          /\ Len(fullMenuPlan[r][d].Combos) <= numCombosPerDay[r]

(* C7: for every numDays >= 0 the call returns (it does not abort), and the
   plan returned has exactly numDays entries, entry i labelled with the name
   of day i, each with at most numCombosPerDay combos. *)
C7_PlanHasNumDaysEntries ==
    \A r \in Runs :
        /\ pc[r] # "panic"
        /\ Returned(r) => PlanWellFormed(r)

\* The same statement for numDays <= 7, where it does hold.
C7_UpToSevenDays ==
    \A r \in Runs :
        (pc[r] # "start" /\ numDays[r] <= Len(dayNames)) =>
            /\ pc[r] # "panic"
            /\ Returned(r) => PlanWellFormed(r)

(* C8: a slot draws at most 5000 candidates; the combos of the day are those
   of its completed slots; when the 5000 draws of a slot are used up the day
   ends with the combos of the earlier slots and no further slot of that day
   is tried; the entry appended for the day is that list. *)
C8_SlotCap ==
    \A r \in Runs :
        /\ attempts[r] <= 5000
        /\ InDay(r) => Len(dailyCombos[r]) = i[r]
        /\ (pc[r] = "return" /\ attempts[r] = 5000) => i[r] < numCombosPerDay[r]
        /\ (pc[r] \in {"dayloop", "done"} /\ dayIndex[r] > 0) =>
              /\ Len(fullMenuPlan[r]) = dayIndex[r]
              /\ fullMenuPlan[r][dayIndex[r]].Combos = dailyCombos[r]
              /\ attempts[r] = 5000 => Len(dailyCombos[r]) < numCombosPerDay[r]

\* A day after a short day: its first slot was filled, the 5000 draws of its
\* second slot were all rejected, and the day returns with that one combo.
C8_Witness ==
    \E r \in Runs :
        /\ pc[r] = "return"
        /\ attempts[r] = 5000
        /\ dayIndex[r] >= 1
        /\ Len(fullMenuPlan[r][dayIndex[r]].Combos) < numCombosPerDay[r]
        /\ Len(dailyCombos[r]) = 1
        /\ i[r] = 1

(* C9: when the handler cannot load the catalog, or loads zero items, it
   answers 500, generateMenuSuggestions is never entered and no plan is
   returned. *)
C9_HandlerFailure ==
    \A r \in Runs :
        (req[r].entry = "handler"
            /\ (req[r].load # "ok" \/ Len(req[r].masterMenu) = 0)) =>
                /\ pc[r] \in {"start", "responded"}
                /\ pc[r] = "responded" =>
                      /\ response[r].status = 500
                      /\ response[r].error # ""
                      /\ response[r].plan = <<>>
                /\ response[r].status # 200
                /\ DOMAIN categorizedMenu[r] = {}
                /\ fullMenuPlan[r] = <<>>

\* The handler has answered 500 for a catalog file that parsed to no item.
C9_Witness ==
    \E r \in Runs :
        /\ req[r].entry = "handler"
        /\ req[r].load = "ok"
        /\ Len(req[r].masterMenu) = 0
        /\ pc[r] = "responded"
        /\ response[r].status = 500

\* Everything a run holds
RunState(r) ==
    <<pc[r], response[r], categorizedMenu[r], numDays[r], numCombosPerDay[r],
      minCalories[r], maxCalories[r], fullMenuPlan[r], day1OverallUsedItems[r],
      allGeneratedComboSignatures[r], globalComboCounter[r], dayIndex[r],
      usedItemsForDay1[r], dailyCombos[r], currentDayUsedItems[r], i[r],
      attempts[r]>>

(* C10: two runs given the same catalog, the same parameters and the same
   drawn indices are in the same state after every step, and so return the
   same plan. *)
C10_SameDrawsSamePlan ==
    \A r1, r2 \in Runs : req[r1] = req[r2] => RunState(r1) = RunState(r2)

\* Both runs have returned a plan that holds a combo of three items of one
\* taste profile: the case in which the map of profiles is ranged over.
C10_Witness ==
    \A r \in Runs :
        /\ Returned(r)
        /\ \E e \in AcceptedAt(r) :
              Cardinality(tasteProfilesOf(ItemNamed(r, "main", ComboAt(r, e).Main),
                                          ItemNamed(r, "side", ComboAt(r, e).Side),
                                          ItemNamed(r, "drink", ComboAt(r, e).Drink))) = 1

-----------------------------------------------------------------------------
\* The step of run r is a rejected draw (attempts counts it and the slot goes
\* on), or the break out of a slot whose attempts are used up.
RejectedOrExhausted(r) ==
    /\ pc[r] = "attempt"
    /\ \/ pc'[r] = "attempt" /\ attempts'[r] = attempts[r] + 1
       \/ pc'[r] = "return" /\ ~(attempts[r] < maxAttemptsPerCombo)

(* C11: a step that rejects a drawn triple, and the step that gives up a slot
   after its last rejected draw, leave the day's combo list, the current-day
   set, the day-0 set, the signature map, the identifier counter, the plan
   and the slot index as they were; only the attempt count moves. *)
C11_RejectedDrawFrame ==
    [][\A r \in Runs :
          RejectedOrExhausted(r) =>
              /\ dailyCombos'[r] = dailyCombos[r]
              /\ currentDayUsedItems'[r] = currentDayUsedItems[r]
              /\ day1OverallUsedItems'[r] = day1OverallUsedItems[r]
              /\ allGeneratedComboSignatures'[r] = allGeneratedComboSignatures[r]
              /\ globalComboCounter'[r] = globalComboCounter[r]
              /\ fullMenuPlan'[r] = fullMenuPlan[r]
              /\ i'[r] = i[r]]_vars

\* Day index 0 gave up its second slot after 5000 rejected draws, and holds
\* what its one acceptance left: one combo, three names in both sets, one
\* signature, counter 1.
C11_Witness ==
    \E r \in Runs :
        /\ pc[r] = "return"
        /\ attempts[r] = maxAttemptsPerCombo
        /\ dayIndex[r] = 0
        /\ Len(dailyCombos[r]) = 1
        /\ Cardinality(currentDayUsedItems[r]) = 3
        /\ day1OverallUsedItems[r] = currentDayUsedItems[r]
        /\ Cardinality(DOMAIN allGeneratedComboSignatures[r]) = 1
        /\ globalComboCounter[r] = 1

\* The call of run r is over: it returned, aborted, or the handler answered.
Ended(r) == pc[r] \in {"done", "panic", "responded"}

\* The candidate draws run r can still make: 5000 for every slot not yet
\* begun, and what is left of the slot being filled.
DrawBudget(r) ==
    LET perDay == numCombosPerDay[r] * maxAttemptsPerCombo
    IN  CASE pc[r] = "dayloop" -> (numDays[r] - dayIndex[r]) * perDay
          [] pc[r] = "attempt" ->
                 (numDays[r] - dayIndex[r] - 1) * perDay
                     + (numCombosPerDay[r] - i[r]) * maxAttemptsPerCombo - attempts[r]
          [] pc[r] = "return" -> (numDays[r] - dayIndex[r] - 1) * perDay
          [] OTHER -> 0

\* The step of run r draws a candidate triple (rejected or accepted).
DrawsCandidate(r) ==
    /\ pc[r] = "attempt"
    /\ attempts'[r] = attempts[r] + 1 \/ i'[r] = i[r] + 1

(* C12: every call ends, and it makes at most numDays * numCombosPerDay * 5000
   candidate draws: the budget is that product when the week loop is entered,
   it is never negative, every draw lowers it by at least one and no other
   step raises it. *)
C12_TerminatesWithinBudget ==
    /\ <>(\E r \in Runs : Ended(r))
    /\ [][\A r \in Runs :
             /\ (pc[r] = "start" /\ pc'[r] = "dayloop") =>
                    DrawBudget(r)' = numDays'[r] * numCombosPerDay'[r] * 5000
             /\ pc[r] # "start" =>
                    /\ DrawBudget(r) >= 0 /\ DrawBudget(r)' >= 0
                    /\ DrawBudget(r)' <= DrawBudget(r)
                    /\ DrawsCandidate(r) => DrawBudget(r)' < DrawBudget(r)]_vars

\* A run has returned after a slot of a later day used up its 5000 draws,
\* earlier slots having been filled.
C12_Witness ==
    \E r \in Runs :
        /\ Returned(r)
        /\ attempts[r] = maxAttemptsPerCombo
        /\ dayIndex[r] >= 2
        /\ globalComboCounter[r] >= 2

\* The item names of the combos accepted on day index d so far
NamesAcceptedOn(r, d) ==
    IF d + 1 \in 1..Len(DaysSoFar(r))
    THEN UNION {NamesOf(DaysSoFar(r)[d + 1].Combos[k]) :
                   k \in 1..Len(DaysSoFar(r)[d + 1].Combos)}
    ELSE {}

(* C13: the day-0 set is handed to the day being generated on day index 0
   only (so later days neither read nor write it), and at every point it is
   exactly the set of item names of the combos accepted on day index 0: that
   holds when day 0 ends and through every later day. *)
C13_DayZeroSetFrame ==
    \A r \in Runs :
        /\ InDay(r) => (usedItemsForDay1[r] # "nil" <=> dayIndex[r] = 0)
        /\ pc[r] # "start" => day1OverallUsedItems[r] = NamesAcceptedOn(r, 0)

\* A returned plan where a day after day index 0 accepted a combo with a name
\* that day 0 did not use, next to names that it did use.
C13_Witness ==
    \E r \in Runs :
        /\ Returned(r)
        /\ day1OverallUsedItems[r] # {}
        /\ \E d \in 1..Len(fullMenuPlan[r]) - 1 :
              /\ NamesAcceptedOn(r, d) \ day1OverallUsedItems[r] # {}
              /\ NamesAcceptedOn(r, d) \cap day1OverallUsedItems[r] # {}

\* The signatures of the combos accepted on day index d so far
SignaturesAcceptedOn(r, d) ==
    IF d + 1 \in 1..Len(DaysSoFar(r))
    THEN {SignatureOfCombo(DaysSoFar(r)[d + 1].Combos[k]) :
             k \in 1..Len(DaysSoFar(r)[d + 1].Combos)}
    ELSE {}

(* C14: on every day the current-day set is the set of names accepted on that
   day so far (empty when the day begins); and on a day with index d >= 1 a
   drawn triple passes the three uniqueness checks exactly when none of its
   names was accepted on day d and its signature was accepted neither on day
   d-1 nor on day d-2, whatever earlier days used; it is accepted exactly
   when, in addition, isValidCombo holds. *)
C14_NoCarryOver ==
    \A r \in Runs :
        /\ InDay(r) => currentDayUsedItems[r] = NamesAcceptedOn(r, dayIndex[r])
        /\ (pc[r] = "attempt" /\ dayIndex[r] >= 1) =>
              LET today == NamesAcceptedOn(r, dayIndex[r])
                  lastTwoDays == SignaturesAcceptedOn(r, dayIndex[r] - 1)
                                     \cup SignaturesAcceptedOn(r, dayIndex[r] - 2)
              IN
              \A draw \in Draws({r}) :
                 LET main == mains(r)[draw[1]]
                     side == sides(r)[draw[2]]
                     drink == drinks(r)[draw[3]]
                     available ==
                         /\ {main.ItemName, side.ItemName, drink.ItemName}
                                \cap today = {}
                         /\ comboSignatureOf(main, side, drink) \notin lastTwoDays
                 IN  /\ available <=>
                            /\ isUniqueForDay1(r, main, side, drink)
                            /\ isUniqueForCurrentDayItems(r, main, side, drink)
                            /\ isUniqueWithin3Days(r, comboSignatureOf(main, side, drink))
                     /\ Acceptable(r, main, side, drink) <=>
                            /\ available
                            /\ isValidCombo(main, side, drink, minCalories[r],
                                            maxCalories[r], popularityTolerance)

\* A returned plan where a day accepted a combo that shares an item name with
\* a combo of the day before.
C14_Witness ==
    \E r \in Runs :
        /\ Returned(r)
        /\ \E d \in 1..Len(fullMenuPlan[r]) - 1 :
              NamesAcceptedOn(r, d) \cap NamesAcceptedOn(r, d - 1) # {}

\* The signatures of all combos run r accepted so far
SignaturesAccepted(r) ==
    {SignatureOfCombo(ComboAt(r, e)) : e \in AcceptedAt(r)}

(* C15: with two requests in flight and their steps interleaved in any
   order, every run keeps state of its own: its categorized catalog is that
   of its own request, its day-0 set, signature map and counter account for
   its own acceptances only, its combos satisfy the per-day exclusivity, the
   three-day signature rule and the increase of the identifiers, and its
   first identifier is combo_1. *)
C15_RunsAreIsolated ==
    /\ C3_DayItemsDisjoint
    /\ C4_SignatureWindow
    /\ C5_IdentifiersIncrease
    /\ \A r \in Runs :
          pc[r] \notin {"start", "responded"} =>
              /\ categorizedMenu[r] = categorizeMenu(req[r].masterMenu)
              /\ day1OverallUsedItems[r] = NamesAcceptedOn(r, 0)
              /\ DOMAIN allGeneratedComboSignatures[r] = SignaturesAccepted(r)
              /\ globalComboCounter[r] = Cardinality(AcceptedAt(r))
              /\ \A e \in AcceptedAt(r) :
                    (\A e2 \in AcceptedAt(r) : ~Before(e2, e)) =>
                        ComboAt(r, e).ComboID = "combo_1"

\* Both runs have returned; the first accepted two combos or more, and the
\* second accepted, as its combo_1, a triple the first accepted as well.
C15_Witness ==
    /\ \A r \in Runs : Returned(r)
    /\ Cardinality(AcceptedAt(1)) >= 2
    /\ \E e \in AcceptedAt(2) :
          /\ ComboAt(2, e).ComboID = "combo_1"
          /\ SignatureOfCombo(ComboAt(2, e)) \in SignaturesAccepted(1)

\* No triple the run can draw satisfies isValidCombo
NoValidTriple(r) ==
    \A draw \in Draws({r}) :
        ~isValidCombo(mains(r)[draw[1]], sides(r)[draw[2]], drinks(r)[draw[3]],
                      minCalories[r], maxCalories[r], popularityTolerance)

\* Nothing was ever accepted: every day so far is empty, no identifier was
\* consumed, the signature map is empty and no slot after the first was begun.
NothingAccepted(r) ==
    /\ AcceptedAt(r) = {}
    /\ globalComboCounter[r] = 0
    /\ DOMAIN allGeneratedComboSignatures[r] = {}
    /\ i[r] = 0

\* Every day that has ended made exactly the 5000 draws of its first slot.
OneExhaustedSlotPerDay(r) ==
    /\ pc[r] = "attempt" => attempts[r] <= maxAttemptsPerCombo
    /\ pc[r] = "return" => attempts[r] = maxAttemptsPerCombo
    /\ (pc[r] \in {"dayloop", "done", "panic"} /\ dayIndex[r] > 0) =>
          attempts[r] = maxAttemptsPerCombo

(* C16 as stated: whenever no triple of the catalog satisfies isValidCombo,
   nothing is accepted and every day ends after exactly one exhausted slot
   of 5000 draws. *)
C16_NoValidTripleAsStated ==
    \A r \in Runs :
        (pc[r] \notin {"start", "responded"} /\ NoValidTriple(r)) =>
            NothingAccepted(r) /\ OneExhaustedSlotPerDay(r)

(* C16 amended: whenever no triple of the catalog satisfies isValidCombo,
   nothing is accepted; and when, in addition, every role has an item and at
   least one slot is wanted, every day ends after exactly one exhausted slot
   of 5000 draws (a catalog lacking a role, or a call for zero slots, ends
   each day without a draw). *)
C16_NoValidTriple ==
    \A r \in Runs :
        (pc[r] \notin {"start", "responded"} /\ NoValidTriple(r)) =>
            /\ NothingAccepted(r)
            /\ (~RoleEmpty(r) /\ numCombosPerDay[r] >= 1) => OneExhaustedSlotPerDay(r)

\* A plan of two empty days returned for a catalog with all three roles and
\* no valid triple, two slots a day wanted: the second day too stopped at the
\* 5000th draw of its first slot.
C16_Witness ==
    \E r \in Runs :
        /\ Returned(r)
        /\ ~RoleEmpty(r)
        /\ NoValidTriple(r)
        /\ numCombosPerDay[r] >= 2
        /\ Len(fullMenuPlan[r]) >= 2
        /\ attempts[r] = maxAttemptsPerCombo
        /\ i[r] = 0

\* The taste profiles of the three items a combo names
ProfilesOfCombo(r, combo) ==
    {ItemNamed(r, "main", combo.Main).TasteProfile,
     ItemNamed(r, "side", combo.Side).TasteProfile,
     ItemNamed(r, "drink", combo.Drink).TasteProfile}

\* The description the claim gives for a set of profiles
DescribedTaste(profiles) ==
    IF \E p \in profiles : profiles = {p}
    THEN "a " \o (CHOOSE p \in profiles : TRUE) \o " profile"
    ELSE IF \E q \in {"spicy", "sweet", "savory", "fresh"} : q \in profiles
    THEN "a " \o (CHOOSE q \in {"spicy", "sweet", "savory", "fresh"} :
                      /\ q \in profiles
                      /\ q = "sweet" => "spicy" \notin profiles
                      /\ q = "savory" => profiles \cap {"spicy", "sweet"} = {}
                      /\ q = "fresh" =>
                            profiles \cap {"spicy", "sweet", "savory"} = {})
             \o " and mixed taste profile"
    ELSE "a mixed taste profile"

(* C17: the reasoning of every accepted combo carries the taste description
   the set of its three profiles determines: "a <p> profile" when they are
   all p, else "a <q> and mixed taste profile" for the first q of spicy,
   sweet, savory, fresh among them, else "a mixed taste profile"; which role
   carries which profile plays no part. *)
C17_TasteDescription ==
    \A r \in Runs : \A e \in AcceptedAt(r) :
        ComboAt(r, e).Reasoning =
            "This combo features "
                \o DescribedTaste(ProfilesOfCombo(r, ComboAt(r, e)))
                \o ", consists of popular choices (average popularity: "
                \o Format2(ComboAt(r, e).PopularityAvg)
                \o "), and meets the calorie target ("
                \o ToString(ComboAt(r, e).CalorieCount) \o " kcal)."

\* A returned plan with a combo of two sweet items and a spicy drink.
C17_Witness ==
    \E r \in Runs :
        /\ Returned(r)
        /\ \E e \in AcceptedAt(r) :
              /\ ItemNamed(r, "main", ComboAt(r, e).Main).TasteProfile = "sweet"
              /\ ItemNamed(r, "side", ComboAt(r, e).Side).TasteProfile = "sweet"
              /\ ItemNamed(r, "drink", ComboAt(r, e).Drink).TasteProfile = "spicy"

\* The items of the catalog of run r
Catalog(r) == {req[r].masterMenu[k] : k \in 1..Len(req[r].masterMenu)}

(* C18: every accepted combo names, as Main, Side and Drink, an item of the
   catalog of category main, side and drink respectively; its CalorieCount
   is the sum of the calories of those three items; and no item of another
   category is named by any combo. *)
C18_BuiltFromDrawnTriple ==
    \A r \in Runs : \A e \in AcceptedAt(r) :
        LET combo == ComboAt(r, e)
        IN  /\ \E main, side, drink \in Catalog(r) :
                  /\ main.Category = "main" /\ main.ItemName = combo.Main
                  /\ side.Category = "side" /\ side.ItemName = combo.Side
                  /\ drink.Category = "drink" /\ drink.ItemName = combo.Drink
                  /\ combo.CalorieCount =
                         main.Calories + side.Calories + drink.Calories
            /\ \A item \in Catalog(r) :
                  item.Category \notin {"main", "side", "drink"} =>
                      item.ItemName \notin NamesOf(combo)

\* A combo was accepted from a catalog that also holds a dessert which, had
\* it been drawn as a drink, would have made a valid triple.
C18_Witness ==
    \E r \in Runs :
        /\ Returned(r)
        /\ AcceptedAt(r) # {}
        /\ \E item \in Catalog(r) :
              /\ item.Category = "dessert"
              /\ \E main, side \in Catalog(r) :
                    /\ main.Category = "main" /\ side.Category = "side"
                    /\ isValidCombo(main, side, item, minCalories[r],
                                    maxCalories[r], popularityTolerance)

\* The catalog has one main, one side and one drink, and they make a valid triple
OnlyOneTriple(r) ==
    /\ Len(mains(r)) = 1 /\ Len(sides(r)) = 1 /\ Len(drinks(r)) = 1
    /\ isValidCombo(mains(r)[1], sides(r)[1], drinks(r)[1],
                    minCalories[r], maxCalories[r], popularityTolerance)

(* C19: with one main, one side and one drink that make a valid triple, seven
   days and at least one slot a day, every returned plan is the same: seven
   entries, one combo on each of day indices 0, 3 and 6 with the identifiers
   combo_1, combo_2, combo_3 in that order, and no combo on day indices 1, 2,
   4 and 5. *)
C19_OneTripleWeek ==
    \A r \in Runs :
        (Returned(r) /\ OnlyOneTriple(r) /\ numDays[r] = 7
             /\ numCombosPerDay[r] >= 1) =>
            /\ Len(fullMenuPlan[r]) = 7
            /\ \A d \in {1, 4, 7} :
                  /\ Len(fullMenuPlan[r][d].Combos) = 1
                  /\ fullMenuPlan[r][d].Combos[1].ComboID
                        = ComboIDOf(((d - 1) \div 3) + 1)
                  /\ fullMenuPlan[r][d].Combos[1].Main = mains(r)[1].ItemName
                  /\ fullMenuPlan[r][d].Combos[1].Side = sides(r)[1].ItemName
                  /\ fullMenuPlan[r][d].Combos[1].Drink = drinks(r)[1].ItemName
            /\ \A d \in {2, 3, 5, 6} : fullMenuPlan[r][d].Combos = <<>>

\* Such a plan has been returned by a direct call for one slot a day.
C19_Witness ==
    \E r \in Runs :
        /\ Returned(r)
        /\ OnlyOneTriple(r)
        /\ numDays[r] = 7
        /\ numCombosPerDay[r] = 1
        /\ req[r].entry = "direct"
        /\ fullMenuPlan[r][7].Combos[1].ComboID = "combo_3"

\* The day indices on which run r accepted a combo of the given signature
DaysAccepted(r, signature) ==
    {e[1] - 1 : e \in {a \in AcceptedAt(r) :
                          SignatureOfCombo(ComboAt(r, a)) = signature}}

\* The map and the counter account for exactly the combos accepted so far.
MapAndCounterExact(r) ==
    /\ DOMAIN allGeneratedComboSignatures[r] = SignaturesAccepted(r)
    /\ \A signature \in DOMAIN allGeneratedComboSignatures[r] :
          allGeneratedComboSignatures[r][signature]
              = Max(DaysAccepted(r, signature))
    /\ globalComboCounter[r] = Cardinality(AcceptedAt(r))
    /\ {ComboNumber(ComboAt(r, e).ComboID) : e \in AcceptedAt(r)}
           = 1..globalComboCounter[r]

(* C20: at every point of a run the keys of the signature map are exactly
   the signatures of the combos accepted so far, each key maps to the largest
   day index on which a combo of that signature was accepted, the counter is
   the number of combos accepted so far and their identifiers are combo_1 to
   combo_k without a gap; and from one step to the next no key is lost and no
   key's value decreases. *)
C20_MapAndCounter ==
    /\ [](\A r \in Runs : pc[r] \notin {"start", "responded"} => MapAndCounterExact(r))
    /\ [][\A r \in Runs :
             pc[r] # "start" =>
                 \A signature \in DOMAIN allGeneratedComboSignatures[r] :
                     /\ signature \in DOMAIN allGeneratedComboSignatures'[r]
                     /\ allGeneratedComboSignatures'[r][signature]
                            >= allGeneratedComboSignatures[r][signature]]_vars

\* A signature accepted on two days maps to the later one, next to a second
\* signature, in a run that has returned.
C20_Witness ==
    \E r \in Runs :
        /\ Returned(r)
        /\ \E signature \in DOMAIN allGeneratedComboSignatures[r] :
              /\ Cardinality(DaysAccepted(r, signature)) >= 2
              /\ allGeneratedComboSignatures[r][signature] >= 3

====
